---- MODULE Spec2Model ----
(***************************************************************************)
(* Model of the loggly shipping client (src/log.go): the process-wide      *)
(* logger singleton, SetupLogger, the levelled entry points, the single    *)
(* and bulk shipping goroutines, the buffer with its mutex, flush and the  *)
(* flush scheduler.                                                        *)
(*                                                                         *)
(* Goroutines are processes with a program counter.  A step is one access  *)
(* to shared memory (the loggerSingleton pointer, a field of the struct it *)
(* points to, the mutex) together with the local computation around it.    *)
(* Accesses that race (SetupLogger against SetupLogger, the unlocked clear *)
(* of flush against append and formatBulkMessage) are interleaved in every *)
(* order; each read and each write of a variable is taken to be atomic.    *)
(* json.Marshal cannot fail on a logMessage of strings and nil, so the     *)
(* marshalling error branches of the code have no step.                    *)
(***************************************************************************)
EXTENDS Integers, Sequences, FiniteSets, TLC

----------------------------------------------------------------------------
(* Bounds of the model *)

\* number of goroutines that call SetupLogger
NSetup == 2
\* number of log calls the calling goroutine issues, one after the other
MaxCalls == 3
\* number of log calls in the specification that ranges over all levels
MaxLevelCalls == 2
\* number of times the sleep of start() elapses
MaxTimerFlush == 1
\* stands for logger.bufferSize, which SetupLogger sets to 1000
BufferSize == 2

----------------------------------------------------------------------------
(* Program constants *)

LogLevelDebug == 0
LogLevelInfo == 1
LogLevelWarn == 2
LogLevelError == 3
LogLevelFatal == 4

\* seconds; logger.flushInterval
FlushInterval == 10

Levels == {LogLevelDebug, LogLevelInfo, LogLevelWarn, LogLevelError, LogLevelFatal}

\* the string each entry point passes as messageType
MessageType(L) ==
    CASE L = LogLevelDebug -> "DEBUG"
      [] L = LogLevelInfo  -> "INFO"
      [] L = LogLevelWarn  -> "WARN"
      [] L = LogLevelError -> "ERROR"
      [] L = LogLevelFatal -> "FATAL"

\* the exit flag each entry point passes: only Fatald passes true
ExitFlag(L) == L = LogLevelFatal

\* the nil pointer / nil interface value
Nil == 0
\* a struct that has not been allocated
NoStruct == [allocated |-> FALSE]
\* the mutex is free
Free == [kind |-> "free", id |-> 0]

Range(s) == {s[i] : i \in 1..Len(s)}

----------------------------------------------------------------------------
VARIABLES
    status,           \* "running", "exit1" (os.Exit(1)) or "panic"
    loggerSingleton,  \* the package variable: Nil or the id of a logger struct
    heap,             \* logger structs by id (the id of the call that allocated it)
    setup,            \* the goroutines calling SetupLogger
    schedulers,       \* number of start() goroutines
    timerFired,       \* number of times a sleep of start() has elapsed
    caller,           \* the goroutine issuing log calls
    calls,            \* the log calls issued so far
    msgs,             \* the logMessage structs built so far, by pointer
    stdout,           \* the lines written to standard output
    task,             \* the goroutines spawned by ship, one per message
    flushes           \* the goroutines running flush

vars == <<status, loggerSingleton, heap, setup, schedulers, timerFired,
          caller, calls, msgs, stdout, task, flushes>>

setupVars == <<setup>>
callVars == <<caller, calls, msgs>>
bulkVars == <<task, flushes, timerFired>>

Running == status = "running"

----------------------------------------------------------------------------
(* SetupLogger *)

SetupCallers == 1..NSetup

\* the arguments of the SetupLogger calls of the model
SetupArgs ==
    { [token |-> "abc", level |-> LogLevelInfo,  tags |-> <<"svc">>,    bulk |-> FALSE, debugMode |-> TRUE],
      [token |-> "xyz", level |-> LogLevelDebug, tags |-> <<"a", "b">>, bulk |-> TRUE,  debugMode |-> FALSE],
      [token |-> "abc", level |-> LogLevelError, tags |-> <<>>,         bulk |-> TRUE,  debugMode |-> TRUE] }

RECURSIVE Join(_, _)
\* strings.Join
Join(elems, sep) ==
    IF Len(elems) = 0 THEN ""
    ELSE IF Len(elems) = 1 THEN elems[1]
    ELSE elems[1] \o sep \o Join(Tail(elems), sep)

\* tagList() called when the singleton points to struct s
tagList(s) == Join(heap[s].tags, ",")

BulkUrl(token, tagl) == "https://logs-01.loggly.com/bulk/" \o token \o "/tag/" \o tagl \o "/"
InputsUrl(token, tagl) == "https://logs-01.loggly.com/inputs/" \o token \o "/tag/" \o tagl \o "/"

\* the struct literal of SetupLogger
NewLogger(a) ==
    [allocated |-> TRUE,
     token |-> a.token,
     Level |-> a.level,
     url |-> "",
     bulk |-> a.bulk,
     bufferSize |-> BufferSize,
     flushInterval |-> FlushInterval,
     buffer |-> <<>>,
     mu |-> Free,
     tags |-> a.tags,
     debugMode |-> a.debugMode]

IdleSetup == [pc |-> "idle", args |-> Nil, tgt |-> Nil, rhs |-> "", after |-> {}]

Returned == {c \in SetupCallers : setup[c].pc = "done"}

\* a variant of the guard that never returns early
SetupGuardAlways(singleton) == FALSE
\* if loggerSingleton != nil { return }
SetupGuard(singleton) == singleton # Nil

\* entry of SetupLogger and its guard
SetupCheck(c, a) ==
    /\ Running
    /\ setup[c].pc = "idle"
    /\ setup' = [setup EXCEPT ![c] =
           [@ EXCEPT !.pc = IF SetupGuard(loggerSingleton) THEN "done" ELSE "alloc",
                     !.args = a,
                     !.after = Returned]]
    /\ UNCHANGED <<status, loggerSingleton, heap, schedulers, stdout>>
    /\ UNCHANGED <<callVars, bulkVars>>

\* loggerSingleton = &logger{...}
SetupAlloc(c) ==
    /\ Running
    /\ setup[c].pc = "alloc"
    /\ heap' = [heap EXCEPT ![c] = NewLogger(setup[c].args)]
    /\ loggerSingleton' = c
    /\ setup' = [setup EXCEPT ![c].pc = "url"]
    /\ UNCHANGED <<status, schedulers, stdout>>
    /\ UNCHANGED <<callVars, bulkVars>>

\* the right-hand side of the url assignment; tagList() reads the singleton
UrlValue(c) ==
    IF setup[c].args.bulk
    THEN BulkUrl(setup[c].args.token, tagList(loggerSingleton))
    ELSE InputsUrl(setup[c].args.token, tagList(loggerSingleton))

\* loggerSingleton.url = ...: the pointer on the left is read
SetupEvalTarget(c) ==
    /\ Running
    /\ setup[c].pc \in {"url", "urlRhs"}
    /\ setup' = [setup EXCEPT ![c] =
           [@ EXCEPT !.tgt = loggerSingleton,
                     !.pc = IF setup[c].pc = "url" THEN "urlTgt" ELSE "store"]]
    /\ UNCHANGED <<status, loggerSingleton, heap, schedulers, stdout>>
    /\ UNCHANGED <<callVars, bulkVars>>

\* loggerSingleton.url = ...: the right-hand side is evaluated
SetupEvalUrl(c) ==
    /\ Running
    /\ setup[c].pc \in {"url", "urlTgt"}
    /\ setup' = [setup EXCEPT ![c] =
           [@ EXCEPT !.rhs = UrlValue(c),
                     !.pc = IF setup[c].pc = "url" THEN "urlRhs" ELSE "store"]]
    /\ UNCHANGED <<status, loggerSingleton, heap, schedulers, stdout>>
    /\ UNCHANGED <<callVars, bulkVars>>

\* loggerSingleton.url = ...: the store
SetupStore(c) ==
    /\ Running
    /\ setup[c].pc = "store"
    /\ heap' = [heap EXCEPT ![setup[c].tgt].url = setup[c].rhs]
    /\ setup' = [setup EXCEPT ![c].pc = IF setup[c].args.bulk THEN "go" ELSE "done"]
    /\ UNCHANGED <<status, loggerSingleton, schedulers, stdout>>
    /\ UNCHANGED <<callVars, bulkVars>>

\* go start()
SetupGo(c) ==
    /\ Running
    /\ setup[c].pc = "go"
    /\ schedulers' = schedulers + 1
    /\ setup' = [setup EXCEPT ![c].pc = "done"]
    /\ UNCHANGED <<status, loggerSingleton, heap, stdout>>
    /\ UNCHANGED <<callVars, bulkVars>>

SetupLogger(c) ==
    \/ \E a \in SetupArgs : SetupCheck(c, a)
    \/ SetupAlloc(c)
    \/ SetupEvalTarget(c)
    \/ SetupEvalUrl(c)
    \/ SetupStore(c)
    \/ SetupGo(c)

\* the logger a SetupLogger(a) call that runs alone leaves behind
Configured(a) ==
    [NewLogger(a) EXCEPT !.url =
        IF a.bulk THEN BulkUrl(a.token, Join(a.tags, ","))
                  ELSE InputsUrl(a.token, Join(a.tags, ","))]

----------------------------------------------------------------------------
(* The state before any SetupLogger call *)

IdleCaller == [pc |-> "idle", level |-> LogLevelDebug, d |-> Nil, msg |-> Nil]

Init ==
    /\ status = "running"
    /\ loggerSingleton = Nil
    /\ heap = [s \in SetupCallers |-> NoStruct]
    /\ setup = [c \in SetupCallers |-> IdleSetup]
    /\ schedulers = 0
    /\ timerFired = 0
    /\ caller = IdleCaller
    /\ calls = <<>>
    /\ msgs = <<>>
    /\ stdout = <<>>
    /\ task = <<>>
    /\ flushes = <<>>

NextSetup == \E c \in SetupCallers : SetupLogger(c)

\* concurrent SetupLogger calls on a fresh process
SpecSetup == Init /\ [][NextSetup]_vars

\* the configuration fields of a logger struct
Config(l) ==
    [token |-> l.token, Level |-> l.Level, url |-> l.url, bulk |-> l.bulk,
     tags |-> l.tags, debugMode |-> l.debugMode]

Allocated == {s \in SetupCallers : heap[s].allocated}

\* call a returned before any other call began
FirstAlone(a) ==
    /\ setup[a].pc = "done"
    /\ setup[a].after = {}
    /\ \A c \in SetupCallers \ {a} : setup[c].pc # "idle" => a \in setup[c].after

\* C9: when a SetupLogger call has returned before any other SetupLogger call
\* begins, the configuration (token, level, url, bulk, tags, debugMode) is and
\* stays the one that first call set, whatever the arguments of the later
\* calls, and the later calls allocate nothing and start no flush scheduler.
C9_FirstCallWins ==
    \A a \in SetupCallers :
        FirstAlone(a) =>
            /\ loggerSingleton = a
            /\ Allocated = {a}
            /\ Config(heap[a]) = Config(Configured(setup[a].args))
            /\ schedulers = (IF setup[a].args.bulk THEN 1 ELSE 0)

\* a second call with different arguments has returned after the first
C9_Witness ==
    \E a, b \in SetupCallers :
        /\ FirstAlone(a)
        /\ b # a
        /\ setup[b].pc = "done"
        /\ setup[b].args # setup[a].args

\* no SetupLogger call is in progress and at least one has returned
SetupQuiescent ==
    /\ Returned # {}
    /\ \A c \in SetupCallers : setup[c].pc \in {"idle", "done"}

\* C10: when several SetupLogger calls run concurrently as first calls, the
\* singleton is assigned once, at most one flush scheduler is started, and
\* once the calls have returned the configuration is entirely that of one call.
C10_OneInitializationWins ==
    /\ Cardinality(Allocated) <= 1
    /\ schedulers <= 1
    /\ SetupQuiescent =>
           \E c \in Returned :
               Config(heap[loggerSingleton]) = Config(Configured(setup[c].args))

----------------------------------------------------------------------------
(* The state a single SetupLogger(a) call leaves behind *)

InitConfigured(a) ==
    /\ status = "running"
    /\ loggerSingleton = 1
    /\ heap = [s \in SetupCallers |-> IF s = 1 THEN Configured(a) ELSE NoStruct]
    /\ setup = [c \in SetupCallers |->
                   IF c = 1 THEN [IdleSetup EXCEPT !.pc = "done", !.args = a] ELSE IdleSetup]
    /\ schedulers = (IF a.bulk THEN 1 ELSE 0)
    /\ timerFired = 0
    /\ caller = IdleCaller
    /\ calls = <<>>
    /\ msgs = <<>>
    /\ stdout = <<>>
    /\ task = <<>>
    /\ flushes = <<>>

----------------------------------------------------------------------------
(* The entry points and buildAndShipMessage *)

\* the nil interface value passed as d by the ...ln and ...f entry points
NilData == <<>>
\* a data value, boxed
SomeData == <<"k=v">>

\* time.Now().Format("2006-01-02T15:04:05.000Z") during the n-th call
Timestamp(n) == "t" \o ToString(n)
\* the output string of the n-th call
Output(n) == "msg" \o ToString(n)

\* the line buildAndShipMessage prints
FormattedOutput(ts, messageType, output, d) ==
    IF d = NilData
    THEN ts \o " [" \o messageType \o "] " \o output
    ELSE ts \o " [" \o messageType \o "] " \o output \o " " \o d[1]

\* newMessage: data is the variadic slice of the call
newMessage(timestamp, level, message, data) ==
    [Timestamp |-> timestamp, Level |-> level, Message |-> message, Metadata |-> data]

\* if loggerSingleton.Level > LogLevelDebug { return }
Dropped(threshold, L) == threshold > LogLevelDebug

ThisCall == Len(calls)

\* a variant of the echo that writes nothing
WriteNothing(out, line) == out
\* fmt.Println(line) on the standard output out
WriteLine(out, line) == Append(out, line)

\* Debugd/Infod/Warnd/Errord/Fatald(output, d) up to the call of ship
buildAndShipMessage(L, d, limit) ==
    /\ Running
    /\ caller.pc = "idle"
    /\ Len(calls) < limit
    /\ LET n == Len(calls) + 1
           call == [level |-> L, d |-> d, echoed |-> FALSE, shipped |-> FALSE,
                    returned |-> FALSE]
       IN
       IF loggerSingleton = Nil
       THEN \* nil pointer dereference
            /\ status' = "panic"
            /\ calls' = Append(calls, call)
            /\ UNCHANGED <<caller, msgs, stdout>>
       ELSE IF Dropped(heap[loggerSingleton].Level, L)
       THEN /\ calls' = Append(calls, [call EXCEPT !.returned = TRUE])
            /\ UNCHANGED <<status, caller, msgs, stdout>>
       ELSE /\ stdout' = WriteLine(stdout,
                            FormattedOutput(Timestamp(n), MessageType(L), Output(n), d))
            /\ msgs' = Append(msgs,
                            newMessage(Timestamp(n), MessageType(L), Output(n), <<NilData>>))
            /\ caller' = [pc |-> "ship", level |-> L, d |-> d, msg |-> Len(msgs) + 1]
            /\ calls' = Append(calls, [call EXCEPT !.echoed = TRUE])
            /\ UNCHANGED status
    /\ UNCHANGED <<loggerSingleton, heap, schedulers>>
    /\ UNCHANGED <<setupVars, bulkVars>>

NewTask(kind, m) ==
    [kind |-> kind, msg |-> m, pc |-> "start", old |-> <<>>, count |-> 0,
     body |-> "", outcome |-> "none"]

\* a variant of ship that takes the bulk path in both modes
ShipKindBulk(bulk) == "bulk"
\* if loggerSingleton.bulk { go handleBulkLogMessage } else { go handleLogMessage }
ShipKind(bulk) == IF bulk THEN "bulk" ELSE "single"

\* ship(message): go handleBulkLogMessage(message) or go handleLogMessage(message)
ship ==
    /\ Running
    /\ caller.pc = "ship"
    /\ task' = Append(task, NewTask(ShipKind(heap[loggerSingleton].bulk), caller.msg))
    /\ caller' = [caller EXCEPT !.pc = "exit"]
    /\ calls' = [calls EXCEPT ![ThisCall].shipped = TRUE]
    /\ UNCHANGED <<status, loggerSingleton, heap, schedulers, stdout, msgs, flushes, timerFired>>
    /\ UNCHANGED setupVars

\* a variant of ship that calls the handler instead of starting a goroutine
ShipReturnsAfterDelivery(i) == task[i].pc = "done"
\* go handle...(message): ship returns without waiting for goroutine i
ShipReturns(i) == TRUE

\* if exit { os.Exit(1) } and the return to the caller
exitOrReturn ==
    /\ Running
    /\ caller.pc = "exit"
    /\ ShipReturns(caller.msg)
    /\ IF ExitFlag(caller.level)
       THEN /\ status' = "exit1"
            /\ UNCHANGED <<caller, calls>>
       ELSE /\ caller' = [caller EXCEPT !.pc = "idle"]
            /\ calls' = [calls EXCEPT ![ThisCall].returned = TRUE]
            /\ UNCHANGED status
    /\ UNCHANGED <<loggerSingleton, heap, schedulers, stdout, msgs>>
    /\ UNCHANGED <<setupVars, bulkVars>>

----------------------------------------------------------------------------
(* json.Marshal of a logMessage *)

\* an interface value: nil or a string
MarshalValue(v) == IF v = NilData THEN "null" ELSE "\"" \o v[1] \o "\""

RECURSIVE MarshalElems(_)
MarshalElems(vs) ==
    IF Len(vs) = 0 THEN ""
    ELSE IF Len(vs) = 1 THEN MarshalValue(vs[1])
    ELSE MarshalValue(vs[1]) \o "," \o MarshalElems(Tail(vs))

\* Metadata holds the []interface{} newMessage received: a JSON array
MarshalMetadata(vs) == "[" \o MarshalElems(vs) \o "]"

Marshal(m) ==
    "{\"timestamp\":\"" \o m.Timestamp \o "\",\"level\":\"" \o m.Level
        \o "\",\"message\":\"" \o m.Message
        \o "\",\"metadata\":" \o MarshalMetadata(m.Metadata) \o "}"

\* what http.Post returns: a status code, or an error and no response
Outcomes == {"200", "403", "500", "err"}

----------------------------------------------------------------------------
(* handleLogMessage *)

\* the goroutines ship has started
Tasks == 1..Len(task)
\* ship starts one goroutine for each processed call
TaskIds == 1..MaxCalls

\* json.Marshal and the call of http.Post
handleLogMessagePost(i) ==
    /\ Running
    /\ i \in Tasks
    /\ task[i].kind = "single"
    /\ task[i].pc = "start"
    /\ task' = [task EXCEPT ![i].pc = "inflight", ![i].body = Marshal(msgs[task[i].msg])]
    /\ UNCHANGED <<status, loggerSingleton, heap, schedulers, stdout, flushes, timerFired>>
    /\ UNCHANGED <<setupVars, callVars>>

\* the lines handleLogMessage prints for an outcome
SingleReport(o, debugMode) ==
    IF ~debugMode THEN <<>>
    ELSE IF o = "err" THEN <<"There was an error shipping the logs to loggy: err">>
    ELSE IF o = "403" THEN <<"Token is invalid 403">>
    ELSE IF o = "200" THEN <<"Log was shipped successfully 200">>
    ELSE <<>>

\* http.Post returns, and the rest of handleLogMessage
handleLogMessageResp(i, o) ==
    /\ Running
    /\ i \in Tasks
    /\ task[i].kind = "single"
    /\ task[i].pc = "inflight"
    /\ task' = [task EXCEPT ![i].pc = "done", ![i].outcome = o]
    /\ stdout' = stdout \o SingleReport(o, heap[loggerSingleton].debugMode)
    /\ UNCHANGED <<status, loggerSingleton, heap, schedulers, flushes, timerFired>>
    /\ UNCHANGED <<setupVars, callVars>>

----------------------------------------------------------------------------
(* The mutex embedded in the logger struct *)

Holder(kind, id) == [kind |-> kind, id |-> id]

\* the struct the package variable points to at this moment
Cur == loggerSingleton

\* a variant of the mutex that excludes nobody
MutexIgnored(mu) == TRUE
\* sync.Mutex: Lock() returns only when no goroutine holds the mutex
MutexFree(mu) == mu = Free

\* Lock() by h returns: the mutex was free
Lock(h) ==
    /\ MutexFree(heap[Cur].mu)
    /\ heap' = [heap EXCEPT ![Cur].mu = h]

\* Unlock() of a mutex that is not locked is a fatal error
UnlockPanics == heap[Cur].mu = Free

----------------------------------------------------------------------------
(* handleBulkLogMessage *)

NewFlush(kind) == [kind |-> kind, pc |-> "lock", snap |-> <<>>, body |-> "", outcome |-> "none"]

\* loggerSingleton.Lock(), and append(loggerSingleton.buffer, message) reads
\* the buffer.  One step: no other goroutine can tell whether the mutex was
\* taken just before the read or earlier.
handleBulkLogMessageLock(i) ==
    /\ Running
    /\ i \in Tasks
    /\ task[i].kind = "bulk"
    /\ task[i].pc = "start"
    /\ MutexFree(heap[Cur].mu)
    /\ heap' = [heap EXCEPT ![Cur].mu = Holder("append", i)]
    /\ task' = [task EXCEPT ![i].pc = "write", ![i].old = heap[Cur].buffer]
    /\ UNCHANGED <<status, loggerSingleton, schedulers, stdout, flushes, timerFired>>
    /\ UNCHANGED <<setupVars, callVars>>

\* loggerSingleton.buffer = append(...): the result is stored
handleBulkLogMessageWrite(i) ==
    /\ Running
    /\ i \in Tasks
    /\ task[i].kind = "bulk"
    /\ task[i].pc = "write"
    /\ heap' = [heap EXCEPT ![Cur].buffer = Append(task[i].old, task[i].msg)]
    /\ task' = [task EXCEPT ![i].pc = "len"]
    /\ UNCHANGED <<status, loggerSingleton, schedulers, stdout, flushes, timerFired>>
    /\ UNCHANGED <<setupVars, callVars>>

\* a variant of the size test that needs one record more
ShouldFlushAbove(count, bufferSize) == count > bufferSize
\* count >= loggerSingleton.bufferSize
ShouldFlush(count, bufferSize) == count >= bufferSize

\* a variant of the end of handleBulkLogMessage that returns without Unlock()
handleBulkLogMessageNoUnlock(i) ==
    /\ Running
    /\ i \in Tasks
    /\ task[i].kind = "bulk"
    /\ task[i].pc = "len"
    /\ LET count == Len(heap[Cur].buffer) IN
       /\ task' = [task EXCEPT ![i].pc = "done", ![i].count = count]
       /\ flushes' = IF ShouldFlush(count, heap[Cur].bufferSize)
                     THEN Append(flushes, NewFlush("size"))
                     ELSE flushes
    /\ UNCHANGED <<status, heap, loggerSingleton, schedulers, stdout, timerFired>>
    /\ UNCHANGED <<setupVars, callVars>>

\* count = len(loggerSingleton.buffer), loggerSingleton.Unlock(), and
\* if count >= loggerSingleton.bufferSize { go flush() }.  One step: after the
\* read of the length the goroutine works on its local count only.
handleBulkLogMessageUnlock(i) ==
    /\ Running
    /\ i \in Tasks
    /\ task[i].kind = "bulk"
    /\ task[i].pc = "len"
    /\ LET count == Len(heap[Cur].buffer) IN
       IF UnlockPanics
       THEN /\ status' = "panic"
            /\ UNCHANGED <<heap, task, flushes>>
       ELSE /\ heap' = [heap EXCEPT ![Cur].mu = Free]
            /\ task' = [task EXCEPT ![i].pc = "done", ![i].count = count]
            /\ flushes' = IF ShouldFlush(count, heap[Cur].bufferSize)
                          THEN Append(flushes, NewFlush("size"))
                          ELSE flushes
            /\ UNCHANGED status
    /\ UNCHANGED <<loggerSingleton, schedulers, stdout, timerFired>>
    /\ UNCHANGED <<setupVars, callVars>>

handleBulkLogMessage(i) ==
    \/ handleBulkLogMessageLock(i)
    \/ handleBulkLogMessageWrite(i)
    \/ handleBulkLogMessageUnlock(i)

----------------------------------------------------------------------------
(* start: the flush scheduler *)

\* time.Sleep(flushInterval) returns and go flush()
start ==
    /\ Running
    /\ schedulers > 0
    /\ timerFired < MaxTimerFlush
    /\ timerFired' = timerFired + 1
    /\ flushes' = Append(flushes, NewFlush("timer"))
    /\ UNCHANGED <<status, loggerSingleton, heap, schedulers, stdout, task>>
    /\ UNCHANGED <<setupVars, callVars>>

----------------------------------------------------------------------------
(* flush and formatBulkMessage *)

\* the flush goroutines started so far
Flushes == 1..Len(flushes)
\* an append starts at most one flush, and so does each elapsed sleep
FlushIds == 1..(MaxCalls + MaxTimerFlush)

RECURSIVE formatBulkMessage(_)
\* the loop of formatBulkMessage over the buffer: output += string(b) + "\n"
formatBulkMessage(buffer) ==
    IF Len(buffer) = 0 THEN ""
    ELSE Marshal(msgs[Head(buffer)]) \o "\n" \o formatBulkMessage(Tail(buffer))

\* formatBulkMessage: loggerSingleton.Lock()
flushLock(f) ==
    /\ Running
    /\ f \in Flushes
    /\ flushes[f].pc = "lock"
    /\ Lock(Holder("flush", f))
    /\ flushes' = [flushes EXCEPT ![f].pc = "format"]
    /\ UNCHANGED <<status, loggerSingleton, schedulers, stdout, task, timerFired>>
    /\ UNCHANGED <<setupVars, callVars>>

\* formatBulkMessage: the range over loggerSingleton.buffer and the deferred
\* loggerSingleton.Unlock().  One step: the loop works on the slice it read.
flushFormat(f) ==
    /\ Running
    /\ f \in Flushes
    /\ flushes[f].pc = "format"
    /\ IF UnlockPanics
       THEN /\ status' = "panic"
            /\ UNCHANGED <<heap, flushes>>
       ELSE /\ heap' = [heap EXCEPT ![Cur].mu = Free]
            /\ flushes' = [flushes EXCEPT ![f].pc = "clear",
                                          ![f].snap = heap[Cur].buffer,
                                          ![f].body = formatBulkMessage(heap[Cur].buffer)]
            /\ UNCHANGED status
    /\ UNCHANGED <<loggerSingleton, schedulers, stdout, task, timerFired>>
    /\ UNCHANGED <<setupVars, callVars>>

\* loggerSingleton.buffer = nil, without the mutex, and the call of
\* http.Post(loggerSingleton.url, "text/plain", body)
flushClear(f) ==
    /\ Running
    /\ f \in Flushes
    /\ flushes[f].pc = "clear"
    /\ heap' = [heap EXCEPT ![Cur].buffer = <<>>]
    /\ flushes' = [flushes EXCEPT ![f].pc = "inflight"]
    /\ UNCHANGED <<status, loggerSingleton, schedulers, stdout, task, timerFired>>
    /\ UNCHANGED <<setupVars, callVars>>

\* the lines flush prints for a response
FlushReport(o, debugMode) ==
    IF ~debugMode THEN <<>>
    ELSE IF o = "403" THEN <<"Token is invalid 403">>
    ELSE IF o = "200" THEN <<"Logs were shipped successfully 200">>
    ELSE <<>>

\* a variant of flush that puts the records back into the buffer when the
\* response is not a 200
flushRespRequeue(f, o) ==
    /\ Running
    /\ f \in Flushes
    /\ flushes[f].pc = "inflight"
    /\ IF o = "err"
       THEN /\ status' = "panic"
            /\ flushes' = [flushes EXCEPT ![f].pc = "panic", ![f].outcome = o]
            /\ UNCHANGED <<stdout, heap>>
       ELSE /\ flushes' = [flushes EXCEPT ![f].pc = "done", ![f].outcome = o]
            /\ stdout' = stdout \o FlushReport(o, heap[Cur].debugMode)
            /\ heap' = IF o = "200" THEN heap
                       ELSE [heap EXCEPT ![Cur].buffer = flushes[f].snap \o @]
            /\ UNCHANGED status
    /\ UNCHANGED <<loggerSingleton, schedulers, task, timerFired>>
    /\ UNCHANGED <<setupVars, callVars>>

\* http.Post returns resp, err; flush reads resp.StatusCode before it looks at err
flushResp(f, o) ==
    /\ Running
    /\ f \in Flushes
    /\ flushes[f].pc = "inflight"
    /\ IF o = "err"
       THEN \* resp is nil: resp.StatusCode is a nil pointer dereference
            /\ status' = "panic"
            /\ flushes' = [flushes EXCEPT ![f].pc = "panic", ![f].outcome = o]
            /\ UNCHANGED stdout
       ELSE /\ flushes' = [flushes EXCEPT ![f].pc = "done", ![f].outcome = o]
            /\ stdout' = stdout \o FlushReport(o, heap[Cur].debugMode)
            /\ UNCHANGED status
    /\ UNCHANGED <<loggerSingleton, heap, schedulers, task, timerFired>>
    /\ UNCHANGED <<setupVars, callVars>>

flush(f) ==
    \/ flushLock(f)
    \/ flushFormat(f)
    \/ flushClear(f)
    \/ \E o \in Outcomes : flushResp(f, o)

handleLogMessage(i) ==
    \/ handleLogMessagePost(i)
    \/ \E o \in Outcomes : handleLogMessageResp(i, o)

----------------------------------------------------------------------------
(* Specifications *)

\* the arguments of a SetupLogger call: every threshold, both modes
LevelArgs ==
    { [token |-> "abc", level |-> T, tags |-> <<"svc">>, bulk |-> b, debugMode |-> TRUE] :
        T \in Levels, b \in BOOLEAN }

\* before SetupLogger, or after a SetupLogger call with any of these arguments
InitLevels == Init \/ \E a \in LevelArgs : InitConfigured(a)

Background ==
    \/ \E i \in TaskIds : handleLogMessage(i)
    \/ \E i \in TaskIds : handleBulkLogMessage(i)
    \/ \E f \in FlushIds : flush(f)
    \/ start

NextLevels ==
    \/ \E L \in Levels, d \in {NilData, SomeData} : buildAndShipMessage(L, d, MaxLevelCalls)
    \/ ship
    \/ exitOrReturn
    \/ Background

\* log calls at every level against every threshold
SpecLevels == InitLevels /\ [][NextLevels]_vars

\* the arguments of a SetupLogger call that sets up bulk shipping of every call
BulkArgs ==
    { [token |-> "abc", level |-> LogLevelDebug, tags |-> <<"svc">>, bulk |-> TRUE,
       debugMode |-> dm] : dm \in BOOLEAN }

InitBulk == \E a \in BulkArgs : InitConfigured(a)

NextBulk ==
    \/ \E L \in {LogLevelInfo} : buildAndShipMessage(L, NilData, MaxCalls)
    \/ ship
    \/ exitOrReturn
    \/ \E i \in TaskIds : handleBulkLogMessage(i)
    \/ \E f \in FlushIds : flush(f)
    \/ start

\* bulk shipping: appends, size-triggered and timer-triggered flushes
SpecBulk == InitBulk /\ [][NextBulk]_vars

NextSize ==
    \/ \E L \in {LogLevelInfo} : buildAndShipMessage(L, NilData, MaxCalls)
    \/ ship
    \/ exitOrReturn
    \/ \E i \in TaskIds : handleBulkLogMessage(i)
    \/ \E f \in FlushIds : flush(f)

\* bulk shipping while the sleep of start() has not elapsed: appends and
\* size-triggered flushes only
SpecSize == InitBulk /\ [][NextSize]_vars

\* the arguments of a SetupLogger call: both modes (single shipping with
\* debugMode, bulk shipping without), a threshold that passes every call and
\* one that drops the calls below WARN
ModeArgs ==
    { [token |-> "abc", level |-> T, tags |-> <<"svc">>, bulk |-> b, debugMode |-> ~b] :
        T \in {LogLevelDebug, LogLevelWarn}, b \in BOOLEAN }

\* the log calls: Infod with a data value, Fatalln
ModeCalls == {<<LogLevelInfo, SomeData>>, <<LogLevelFatal, NilData>>}

InitModes == \E a \in ModeArgs : InitConfigured(a)

NextModes ==
    \/ \E in \in ModeCalls : buildAndShipMessage(in[1], in[2], MaxLevelCalls)
    \/ ship
    \/ exitOrReturn
    \/ Background

\* log calls in single and in bulk mode, with the flush scheduler
SpecModes == InitModes /\ [][NextModes]_vars

----------------------------------------------------------------------------
(* Properties of the entry points *)

\* the configured threshold
Threshold == heap[loggerSingleton].Level

CallIds == 1..Len(calls)

\* the n-th call is over: it returned, or it ended the process
Finished(n) == calls[n].returned \/ (n = Len(calls) /\ status = "exit1")

\* C1: a log call at level L under threshold T is echoed and handed to
\* shipping if and only if L >= T; a call with L < T is neither echoed nor
\* shipped.
C1_ProcessedIffAtOrAboveThreshold ==
    \A n \in CallIds :
        Finished(n) =>
            /\ (calls[n].echoed /\ calls[n].shipped) <=> (calls[n].level >= Threshold)
            /\ calls[n].level < Threshold => ~calls[n].echoed /\ ~calls[n].shipped

\* C8: a FATAL call never returns to its caller, whatever the threshold: the
\* process ends with exit status 1, and only after ship has returned.
C8_FatalExits ==
    /\ \A n \in CallIds : calls[n].level = LogLevelFatal => ~calls[n].returned
    /\ status = "exit1" =>
           /\ calls[Len(calls)].level = LogLevelFatal
           /\ calls[Len(calls)].shipped

\* C11: a log call never waits on network I/O: while the process runs, the
\* calling goroutine can always take its next step (ship, then the return),
\* whatever the state of the delivery goroutines.
C11_CallNeverWaitsOnDelivery ==
    Running =>
        /\ caller.pc = "ship" => ENABLED ship
        /\ caller.pc = "exit" => ENABLED exitOrReturn

\* the last call has returned while its request is in flight, unanswered
C11_Witness ==
    /\ caller.pc = "idle"
    /\ Len(calls) >= 1
    /\ calls[Len(calls)].shipped
    /\ calls[Len(calls)].returned
    /\ \E i \in Tasks : task[i].msg = Len(msgs) /\ task[i].pc = "inflight"

\* C12: the metadata field of the serialized record of a call is the data
\* value d of the call itself, and null when no data is given.
C12_MetadataIsData ==
    caller.pc \in {"ship", "exit"} =>
        MarshalMetadata(msgs[caller.msg].Metadata) = MarshalValue(caller.d)

\* C14: a non-FATAL log call returns normally to its caller: it has returned,
\* or it is still running in a running process.
C14_NonFatalCallReturns ==
    \A n \in CallIds :
        calls[n].level # LogLevelFatal =>
            \/ calls[n].returned
            \/ Running /\ n = Len(calls) /\ caller.pc # "idle"

----------------------------------------------------------------------------
(* Properties of bulk shipping *)

\* the flush cycles that have issued their request
Posted == {f \in Flushes : flushes[f].pc \in {"inflight", "done", "panic"}}

\* C2: a flush never clears a record that is not in the snapshot it ships:
\* whenever a flush cycle empties the buffer, every record in the buffer is in
\* the payload of that cycle.
C2_NoRecordLostByDrain ==
    [][\A f \in Flushes :
           (flushes[f].pc = "clear" /\ flushes'[f].pc = "inflight")
               => Range(heap[Cur].buffer) \subseteq Range(flushes[f].snap)]_vars

\* C3: no record is shipped twice: the payloads of any two flush cycles hold
\* disjoint sets of records.
C3_NoRecordShippedTwice ==
    \A f, g \in Posted :
        f # g => Range(flushes[f].snap) \cap Range(flushes[g].snap) = {}

\* C4: a flush cycle that finds the buffer empty issues no request: every
\* batch request carries at least one record.
C4_NoRequestForEmptyDrain ==
    \A f \in Posted : flushes[f].body # ""

\* C5: a transport error in single or batch delivery never crashes the
\* process: the delivery goroutine ends normally.
C5_TransportErrorSwallowed ==
    /\ \A i \in Tasks : task[i].outcome = "err" => task[i].pc = "done" /\ status # "panic"
    /\ \A f \in Flushes :
           flushes[f].outcome = "err" => flushes[f].pc = "done" /\ status # "panic"

\* the messages whose append has been stored
Appended == {i \in Tasks : task[i].kind = "bulk" /\ task[i].pc \in {"len", "done"}}

SizeFlushes == {f \in Flushes : flushes[f].kind = "size"}

\* C6: from an empty buffer and with no timer-triggered flush, fewer than
\* bufferSize appended records have triggered no size-triggered flush, and
\* once exactly bufferSize records are appended and their goroutines have
\* ended, exactly one size-triggered flush has been triggered.
C6_OneSizeFlushAtCapacity ==
    timerFired = 0 =>
        /\ Cardinality(Appended) < heap[Cur].bufferSize => SizeFlushes = {}
        /\ (/\ Cardinality(Appended) = heap[Cur].bufferSize
            /\ \A i \in Appended : task[i].pc = "done")
               => Cardinality(SizeFlushes) = 1

\* bufferSize records are appended, their goroutines have ended and the
\* flush they triggered has issued its request
C6_Witness ==
    /\ timerFired = 0
    /\ Cardinality(Appended) = heap[Cur].bufferSize
    /\ \A i \in Appended : task[i].pc = "done"
    /\ \E f \in SizeFlushes : f \in Posted /\ Len(flushes[f].snap) = heap[Cur].bufferSize

\* C7: the records of sequential log calls appear in a batch payload in call
\* order (messages are numbered in call order).
C7_CallOrderInBatch ==
    \A f \in Posted :
        \A j, k \in 1..Len(flushes[f].snap) :
            j < k => flushes[f].snap[j] < flushes[f].snap[k]

\* C13: the flush scheduler runs for the life of the process, also after a
\* flush cycle that ended with a delivery failure: whenever a flush cycle has
\* failed and records are in the buffer, the process is still running, so that
\* a later timer-triggered flush can drain them.
C13_RecordsDrainedAfterFailure ==
    (/\ \E f \in Flushes : flushes[f].outcome \in {"err", "403", "500"}
     /\ heap[Cur].buffer # <<>>)
        => Running

\* C16: every read and every write of the buffer (the read and the store of
\* append, the length read, the snapshot of formatBulkMessage, the clear of
\* flush) is a step of the goroutine that holds the mutex.
C16_BufferAccessUnderMutex ==
    [][/\ \A i \in Tasks :
              /\ (task[i].pc = "start" /\ task'[i].pc = "write")
                     => heap'[Cur].mu = Holder("append", i)
              /\ (task[i].pc \in {"write", "len"} /\ task'[i].pc # task[i].pc)
                     => heap[Cur].mu = Holder("append", i)
       /\ \A f \in Flushes :
              (flushes[f].pc \in {"format", "clear"} /\ flushes'[f].pc # flushes[f].pc)
                  => heap[Cur].mu = Holder("flush", f)]_vars

\* no flush cycle has cleared the buffer yet
NoFlushCleared == \A f \in Flushes : flushes[f].pc \in {"lock", "format", "clear"}

\* the append goroutines that have ended
DoneAppends == {i \in Tasks : task[i].kind = "bulk" /\ task[i].pc = "done"}

\* C17: as long as no flush has cleared the buffer, concurrent appends against
\* the empty buffer leave every appended record in the buffer exactly once,
\* and the lengths the N ended appends observed are exactly 1..N.
C17_AppendsAreExclusive ==
    NoFlushCleared =>
        /\ Len(heap[Cur].buffer) = Cardinality(Appended)
        /\ Range(heap[Cur].buffer) = {task[i].msg : i \in Appended}
        /\ {task[i].count : i \in DoneAppends} = 1..Cardinality(DoneAppends)

\* every call's append has ended, out of call order, and no flush has cleared
C17_Witness ==
    /\ NoFlushCleared
    /\ Cardinality(DoneAppends) = MaxCalls
    /\ Len(heap[Cur].buffer) = MaxCalls
    /\ heap[Cur].buffer[1] # 1

----------------------------------------------------------------------------
(* Properties of the two shipping paths *)

\* the n-th call passed the level guard
Processed(n) == ~Dropped(Threshold, calls[n].level)

\* the echo line of the n-th call
EchoLine(n) ==
    FormattedOutput(Timestamp(n), MessageType(calls[n].level), Output(n), calls[n].d)

\* how often the echo line of the n-th call is on the standard output
EchoCount(n) == Cardinality({k \in 1..Len(stdout) : stdout[k] = EchoLine(n)})

\* C15: every processed call has written exactly one echo line, from the
\* moment it passed the level guard, so before its record is handed to ship,
\* and whatever becomes of the delivery afterwards.
C15_OneEchoBeforeShipping ==
    \A n \in CallIds :
        Processed(n) =>
            /\ EchoCount(n) = 1
            /\ (n = Len(calls) /\ caller.pc = "ship") => ~calls[n].shipped

\* the delivery of a processed, echoed call ended with a transport error
C15_Witness ==
    \E i \in Tasks :
        /\ task[i].kind = "single"
        /\ task[i].pc = "done"
        /\ task[i].outcome = "err"
        /\ Processed(i)
        /\ EchoCount(i) = 1

\* C18: no delivery outcome causes a retry or a requeue: the step in which a
\* single or batch request completes leaves the buffer unchanged, ends the
\* goroutine and starts no other, and an ended goroutine issues nothing more.
C18_NoRetryNoRequeue ==
    [][/\ \A i \in Tasks :
              /\ (task[i].pc = "inflight" /\ task'[i].pc # "inflight")
                     => /\ task'[i].pc = "done"
                        /\ heap'[Cur].buffer = heap[Cur].buffer
                        /\ Len(task') = Len(task)
                        /\ Len(flushes') = Len(flushes)
              /\ task[i].pc = "done" => task'[i] = task[i]
       /\ \A f \in Flushes :
              /\ (flushes[f].pc = "inflight" /\ flushes'[f].pc # "inflight")
                     => /\ flushes'[f].pc \in {"done", "panic"}
                        /\ heap'[Cur].buffer = heap[Cur].buffer
                        /\ Len(task') = Len(task)
                        /\ Len(flushes') = Len(flushes)
              /\ flushes[f].pc \in {"done", "panic"} => flushes'[f] = flushes[f]]_vars

\* a batch request with records has been answered with a 500 and its
\* records are not back in the buffer
C18_Witness ==
    \E f \in Flushes :
        /\ flushes[f].pc = "done"
        /\ flushes[f].outcome = "500"
        /\ flushes[f].snap # <<>>
        /\ Range(flushes[f].snap) \cap Range(heap[Cur].buffer) = {}

\* C19: the mode fixed at setup separates the two paths.  With bulk = false
\* there is no flush scheduler, no flush cycle, the buffer is empty and every
\* call handed to ship has its own single-record goroutine; with bulk = true
\* every call handed to ship has an append goroutine and no single-record
\* request is issued.
C19_ModeSeparatesPaths ==
    /\ Len(task) = Cardinality({n \in CallIds : calls[n].shipped})
    /\ ~heap[Cur].bulk =>
           /\ schedulers = 0
           /\ flushes = <<>>
           /\ heap[Cur].buffer = <<>>
           /\ \A i \in Tasks :
                  /\ task[i].kind = "single"
                  /\ task[i].pc \in {"inflight", "done"}
                         => task[i].body = Marshal(msgs[task[i].msg])
    /\ heap[Cur].bulk =>
           \A i \in Tasks : task[i].kind = "bulk" /\ task[i].body = ""

\* single mode: every call of the run has issued its request and got a response
C19_Witness ==
    /\ ~heap[Cur].bulk
    /\ Len(task) = MaxLevelCalls
    /\ \A i \in Tasks : task[i].pc = "done"

----------------------------------------------------------------------------
(* The mutex under fair scheduling *)

\* The Go scheduler runs every runnable goroutine, and a goroutine blocked in
\* Lock() gets the mutex once it stays free.  Nothing is assumed about the
\* transport (http.Post may never return) nor about the caller.
SpecSizeFair ==
    /\ SpecSize
    /\ \A i \in TaskIds : WF_vars(handleBulkLogMessage(i))
    /\ \A f \in FlushIds : WF_vars(flushLock(f) \/ flushFormat(f) \/ flushClear(f))

\* the mutex is held only by a goroutine inside its critical section
HeldInsideCriticalSection ==
    LET mu == heap[Cur].mu IN
    /\ mu.kind = "append" => mu.id \in Tasks /\ task[mu.id].pc \in {"write", "len"}
    /\ mu.kind = "flush" => mu.id \in Flushes /\ flushes[mu.id].pc = "format"
    /\ \A f \in Flushes : flushes[f].pc = "inflight" => mu # Holder("flush", f)

\* goroutine i of handleBulkLogMessage is blocked in Lock()
AppendWaits(i) == i \in Tasks /\ task[i].kind = "bulk" /\ task[i].pc = "start"

\* flush goroutine f is blocked in Lock()
FlushWaits(f) == f \in Flushes /\ flushes[f].pc = "lock"

\* C20: the mutex is never held by a goroutine whose request is in flight or
\* that has left its critical section, and while the process runs no
\* goroutine waits for the mutex forever, even if no response ever arrives.
C20_NoTaskWaitsForever ==
    /\ []HeldInsideCriticalSection
    /\ \A i \in TaskIds : AppendWaits(i) ~> (~Running \/ ~AppendWaits(i))
    /\ \A f \in FlushIds : FlushWaits(f) ~> (~Running \/ ~FlushWaits(f))

\* a batch request is in flight and another goroutine holds the mutex
C20_Witness ==
    /\ \E f \in Flushes : flushes[f].pc = "inflight"
    /\ heap[Cur].mu # Free

====
